---- MODULE Spec2Model ----
(***************************************************************************)
(* Backend of the appointment-booking chatbot (backend/server.js) with its *)
(* store (postgres/init.sql): the register, login, chatbot-token and       *)
(* chatbot-message handlers, the authentication gate, the users and        *)
(* chat_sessions tables and the external Python collaborator.              *)
(*                                                                         *)
(* A handler is one action per stretch of code between two points where    *)
(* it waits for the store or the collaborator; the synchronous code that   *)
(* precedes a query is part of the action in which the store runs it.      *)
(* Time is in milliseconds, as Date.now() and NOW() give it.               *)
(* The edge routes (frontend/pages/api) forward a request to the backend   *)
(* and relay its answer: each answer is recorded with what they make of it.*)
(* The express-rate-limit middleware (server.js 21-26) counts the requests *)
(* of each address before any handler runs; in the specifications that are *)
(* not about it the clients send at most MaxRequests requests per window,  *)
(* so it counts their requests and refuses none.  The chat_sessions.id     *)
(* sequence is not modelled: no statement of the program reads it.         *)
(***************************************************************************)
EXTENDS Integers, Sequences, FiniteSets, TLC

(* ------------------------------- bounds ------------------------------- *)
MaxDays     == 1   \* the clock runs over days 0..MaxDays
MaxUserId   == 4   \* last value the users.id sequence may hand out
MaxSessions == 1   \* rows of chat_sessions with the same user_id
MaxLog      == 4   \* transcript entries, stored or about to be stored, in all sessions
\* requests a client of the specifications below sends within one window of
\* the limiter
MaxRequests == 4
\* requests the page sends within one window of the limiter
MaxPageRequests == 6

(* -------------------------- program constants -------------------------- *)
LoginExpiresIn  == 86400     \* expiresIn: '24h', in seconds
ChatExpiresIn   == 900       \* expiresIn: '15m', in seconds
SessionExpiresIn == 86400    \* expiresIn: '24h', in seconds
SessionRowTtl   == 86400000  \* 24 * 60 * 60 * 1000 ms
MinPassword     == 6         \* Joi.string().min(6)
FirstFreeUserId == 3         \* init.sql inserts users 1 and 2
Undefined       == 0         \* JS undefined / SQL NULL in an id position
RateMax         == 100       \* max: 100 requests per window
RateWindowMs    == 900000    \* windowMs: 15 * 60 * 1000

\* the clients, each with at most one request in flight
Clients == {1, 2}
MsPerDay == 24 * 60 * 60 * 1000
\* the instants at which something can happen: the start of each day and
\* half a second later
Offsets  == {0, 500}
Instants == {d * MsPerDay + o : d \in 0 .. MaxDays, o \in Offsets}

JwtSecret == "default_secret"

(* ------------------------------ jsonwebtoken --------------------------- *)
NoToken == [form |-> "none"]
\* the empty string where a token is expected
EmptyToken == [form |-> "empty"]
Garbage == [form |-> "garbage"]

\* jwt.sign(payload, secret, {expiresIn}): iat and exp are whole seconds
JwtSign(payload, secret, expiresIn, t) ==
  [form   |-> "jwt",
   claims |-> payload @@ [iat |-> t \div 1000,
                          exp |-> (t \div 1000) + expiresIn],
   key    |-> secret]

\* a verification that ignores exp
JwtVerifyNoExpiry(token, secret, t) ==
  IF token.form # "jwt" THEN [err |-> "jwt malformed", user |-> [iat |-> 0]]
  ELSE IF token.key # secret THEN [err |-> "invalid signature", user |-> [iat |-> 0]]
  ELSE [err |-> "", user |-> token.claims]

\* jwt.verify(token, secret): err is "" when the token verifies
JwtVerify(token, secret, t) ==
  IF token.form # "jwt" THEN [err |-> "jwt malformed", user |-> [iat |-> 0]]
  ELSE IF token.key # secret THEN [err |-> "invalid signature", user |-> [iat |-> 0]]
  ELSE IF (t \div 1000) >= token.claims.exp
       THEN [err |-> "jwt expired", user |-> [iat |-> 0]]
  ELSE [err |-> "", user |-> token.claims]

\* JSON.stringify drops a key whose value is undefined
WithUserId(userId, rest) ==
  IF userId = Undefined THEN rest ELSE [userId |-> userId] @@ rest

\* req.user.id
UserIdOf(user) == IF "id" \in DOMAIN user THEN user.id ELSE Undefined

(* -------------------------------- bcryptjs ----------------------------- *)
Salts == {"salt1"}
BcryptHash(password, salt) ==
  [wellformed |-> TRUE, salt |-> salt, digest |-> <<salt, password>>]
\* '$2b$10$example_hash' of init.sql is not a bcrypt hash: compare gives false
ExampleHash == [wellformed |-> FALSE, salt |-> "", digest |-> <<>>]
BcryptCompare(password, hash) ==
  hash.wellformed /\ hash.digest = <<hash.salt, password>>

(* ---------------------------- authenticateToken ------------------------ *)
\* The Authorization header is the list authHeader.split(' ') gives, its
\* second entry EmptyToken when nothing or a second space follows the first
\* space; <<>> is a request without the header.
HeaderToken(authHeader) ==
  IF Len(authHeader) >= 2 THEN authHeader[2] ELSE NoToken

\* !token: undefined or the empty string
MissingToken(token) == token.form \in {"none", "empty"}

\* a gate that calls next() whatever jwt.verify says
authenticateTokenLax(authHeader, t) ==
  LET token == HeaderToken(authHeader)
      v     == JwtVerify(token, JwtSecret, t)
  IN  IF MissingToken(token)
        THEN [status |-> 401, body |-> [error |-> "Access token required"],
              user |-> [iat |-> 0]]
      ELSE [status |-> 0, body |-> [error |-> ""], user |-> v.user]

\* status 0: next() is called with req.user = user
authenticateToken(authHeader, t) ==
  LET token == HeaderToken(authHeader)
      v     == JwtVerify(token, JwtSecret, t)
  IN  IF MissingToken(token)
        THEN [status |-> 401, body |-> [error |-> "Access token required"],
              user |-> [iat |-> 0]]
      ELSE IF v.err # ""
        THEN [status |-> 403, body |-> [error |-> "Invalid or expired token"],
              user |-> [iat |-> 0]]
      ELSE [status |-> 0, body |-> [error |-> ""], user |-> v.user]

(* ------------------------------- userSchema ---------------------------- *)
Emails    == {"alice@example.com", "bob@example.com", "john.doe@example.com"}
\* Joi.string().email(): of the strings used here, those with the shape
\* local@domain.tld
IsEmail(s) == s \in Emails

SchemaKeys == {"email", "password", "first_name", "last_name"}

\* a schema without the minimum length of the password
UserSchemaErrorAnyPassword(body) ==
  IF "email" \notin DOMAIN body THEN "\"email\" is required"
  ELSE IF body.email = "" THEN "\"email\" is not allowed to be empty"
  ELSE IF ~IsEmail(body.email) THEN "\"email\" must be a valid email"
  ELSE IF "password" \notin DOMAIN body THEN "\"password\" is required"
  ELSE IF body.password = "" THEN "\"password\" is not allowed to be empty"
  ELSE IF "first_name" \notin DOMAIN body THEN "\"first_name\" is required"
  ELSE IF body.first_name = "" THEN "\"first_name\" is not allowed to be empty"
  ELSE IF "last_name" \notin DOMAIN body THEN "\"last_name\" is required"
  ELSE IF body.last_name = "" THEN "\"last_name\" is not allowed to be empty"
  ELSE IF DOMAIN body # SchemaKeys THEN "\"phone\" is not allowed"
  ELSE ""

\* error.details[0].message of userSchema.validate(body); "" when body is
\* valid.  Keys are checked in schema order, unknown keys after them.
UserSchemaError(body) ==
  IF "email" \notin DOMAIN body THEN "\"email\" is required"
  ELSE IF body.email = "" THEN "\"email\" is not allowed to be empty"
  ELSE IF ~IsEmail(body.email) THEN "\"email\" must be a valid email"
  ELSE IF "password" \notin DOMAIN body THEN "\"password\" is required"
  ELSE IF body.password = "" THEN "\"password\" is not allowed to be empty"
  ELSE IF Len(body.password) < MinPassword
       THEN "\"password\" length must be at least 6 characters long"
  ELSE IF "first_name" \notin DOMAIN body THEN "\"first_name\" is required"
  ELSE IF body.first_name = "" THEN "\"first_name\" is not allowed to be empty"
  ELSE IF "last_name" \notin DOMAIN body THEN "\"last_name\" is required"
  ELSE IF body.last_name = "" THEN "\"last_name\" is not allowed to be empty"
  ELSE IF DOMAIN body # SchemaKeys THEN "\"phone\" is not allowed"
  ELSE ""

(* --------------------------------- state ------------------------------- *)
VARIABLES
  now,         \* wall clock, ms
  users,       \* rows of table users
  nextUserId,  \* next value of the sequence behind users.id
  sessions,    \* rows of table chat_sessions
  req,         \* per client: the request in flight and the handler's locals
  wallet,      \* per client: the tokens the backend has answered it with
  answered,    \* the request answered last, with its response
  limiter,     \* per client (IP): requests counted in the window, its end
  page         \* the ChatbotPage open in the browser of client 1

vars == <<now, users, nextUserId, sessions, req, wallet, answered, limiter, page>>

NoUser    == [iat |-> 0]
NoSession == [user_id |-> Undefined, session_token |-> NoToken,
              conversation_log |-> <<>>, updated_at |-> 0, expires_at |-> 0]
NoBody    == [none |-> TRUE]

\* a request: what was sent (op, auth, body), the handler's locals (user,
\* salt, hashed, row, session, py, log, caught), its answer (status, resp), and counts
\* of what it did (reads, writes of the store; calls of the collaborator);
\* start is the time a request to a protected operation arrived, sent the
\* time its first query of the store ran (after which sendMessage sends its
\* request to the collaborator) and before the stored transcript that its
\* UPDATE replaced; resp holds the tokens of issueToken once they are
\* signed; body is recorded once the handler has read it; ctype is the Content-Type of the answer and edge
\* the answer of the edge route that forwarded the request
IdleReq == [op |-> "none", pc |-> "idle", auth |-> <<>>, body |-> NoBody,
            ctype |-> "application/json", edge |-> [status |-> 0, body |-> NoBody],
            user |-> NoUser, salt |-> "", hashed |-> ExampleHash, row |-> NoBody,
            session |-> NoSession,
            py |-> NoBody, log |-> <<>>, before |-> <<>>, status |-> 0, resp |-> NoBody,
            start |-> 0, sent |-> 0, reads |-> 0, writes |-> 0, calls |-> 0, caught |-> ""]

\* rows inserted by init.sql (columns the program reads)
SampleUsers ==
  {[id |-> 1, email |-> "john.doe@example.com", password_hash |-> ExampleHash,
    first_name |-> "John", last_name |-> "Doe"],
   [id |-> 2, email |-> "jane.smith@example.com", password_hash |-> ExampleHash,
    first_name |-> "Jane", last_name |-> "Smith"]}

NoWallet == [token |-> NoToken, chatToken |-> NoToken, sessionToken |-> NoToken]

\* The state of ChatbotPage (pages/index.js). null is NoToken for a token
\* and NoBody for an object; UndefinedToken is the value undefined where a
\* token is expected. storage is localStorage; timers holds, for each
\* pending setTimeout callback in the order they were set (all with the
\* same delay), the token its getChatbotToken closes over;
\* calls holds the axios calls whose promise has not settled yet, each with
\* the answer of the edge route once there is one. touched records that the
\* user has acted on the page since the last authentication.
UndefinedToken == [form |-> "undefined"]
NoStorage == [authToken |-> NoToken, user |-> NoBody]
InitialPage ==
  [messages |-> <<>>, isLoading |-> FALSE, token |-> NoToken,
   sessionToken |-> NoToken, isAuthenticated |-> FALSE, user |-> NoBody,
   authMode |-> "login", authLoading |-> FALSE, authError |-> "",
   sessionLoading |-> FALSE, sessionError |-> "",
   storage |-> NoStorage, timers |-> <<>>, calls |-> {}, touched |-> FALSE]

Init ==
  /\ now = 0
  /\ users = SampleUsers
  /\ nextUserId = FirstFreeUserId
  /\ sessions = {}
  /\ req = [p \in Clients |-> IdleReq]
  /\ wallet = [p \in Clients |-> NoWallet]
  /\ answered = IdleReq
  /\ limiter = [p \in Clients |-> [hits |-> 0, resetTime |-> 0]]
  /\ page = InitialPage

\* an error thrown by pool.query when the store cannot be reached
StoreDown == "connect ECONNREFUSED"

UsersByEmail(email) == {u \in users : u.email = email}
\* a projection that returns the whole row
PublicUserWholeRow(u) == u
\* RETURNING id, email, first_name, last_name / the user object of login
PublicUser(u) == [id |-> u.id, email |-> u.email,
                  first_name |-> u.first_name, last_name |-> u.last_name]

\* what the client keeps of an answer: the identity token of a login, the
\* two tokens of a token request
Keep(w, op, status, body) ==
  IF op = "login" /\ status = 200 THEN [w EXCEPT !.token = body.token]
  ELSE IF op = "issueToken" /\ status = 200
    THEN [w EXCEPT !.chatToken = body.chatToken, !.sessionToken = body.sessionToken]
  ELSE w

\* error.message of JSON.parse (Node 20) on the text the limiter answers with
JsonParseMessage == "Unexpected token 'T', \"Too many r\"... is not valid JSON"

\* The edge routes (pages/api): backendRes.json() throws on a body that is
\* not JSON and the catch answers 500; a backend answer that is not ok is
\* relayed with its status, one that is ok with status 200.
EdgeAnswer(op, status, body, ctype) ==
  IF ctype # "application/json"
    THEN [status |-> 500,
          body |-> [error |-> IF op = "sendMessage"
                                THEN "Internal server error in message API: " \o JsonParseMessage
                                ELSE "Internal server error"]]
  ELSE IF status \notin 200 .. 299 THEN [status |-> status, body |-> body]
  ELSE [status |-> 200, body |-> body]

\* res.status(status).json(body): the request of client p is answered
\* and the client keeps the tokens of the answer or drops them
Respond(p, r, status, body, keep) ==
  /\ answered' = [r EXCEPT !.pc = "done", !.status = status, !.resp = body,
                           !.edge = EdgeAnswer(r.op, status, body, r.ctype)]
  /\ req' = [req EXCEPT ![p] = IdleReq]
  /\ wallet' = [wallet EXCEPT ![p] = IF keep THEN Keep(@, r.op, status, body) ELSE @]

\* the handler of client p waits for the store or the collaborator
Await(p, r) ==
  /\ req' = [req EXCEPT ![p] = r]
  /\ UNCHANGED <<wallet, answered>>

(* ------------------------- app.use('/api/', limiter) ------------------- *)
\* the count of client p once a request of it arrives at time t: a new
\* window starts when the last one is over; the count is kept up to
\* RateMax + 1, all that the comparison with max reads
Hit(l, t) ==
  IF t >= l.resetTime THEN [hits |-> 1, resetTime |-> t + RateWindowMs]
  ELSE [l EXCEPT !.hits = IF @ > RateMax THEN @ ELSE @ + 1]

\* res.status(429).send(message) with message a string: a text body
TooManyRequests ==
  [text |-> "Too many requests from this IP, please try again later."]

\* a request for operation op arrives from address ip on connection p at
\* the limiter, which counts it and either answers 429 itself or lets the
\* handler run
LimitedFrom(ip, p, op, handler) ==
  /\ req[p].pc = "idle"
  /\ limiter' = [limiter EXCEPT ![ip] = Hit(@, now)]
  /\ IF Hit(limiter[ip], now).hits > RateMax
       THEN /\ Respond(p, [IdleReq EXCEPT !.op = op, !.ctype = "text/html"],
                       429, TooManyRequests, FALSE)
            /\ UNCHANGED <<now, users, nextUserId, sessions>>
       ELSE handler

\* each client has its own address
Limited(p, op, handler) == LimitedFrom(p, p, op, handler)

\* address ip has sent fewer than MaxRequests requests in the window that a
\* request of it would be counted in
MaySend(ip) == Hit(limiter[ip], now).hits <= MaxRequests

\* GET /api/health
Health(p) ==
  /\ Respond(p, [IdleReq EXCEPT !.op = "health"], 200,
             [status |-> "OK", timestamp |-> now], FALSE)
  /\ UNCHANGED <<now, users, nextUserId, sessions>>

(* ----------------------- POST /api/auth/register ----------------------- *)
RegisterBodies ==
  {[email |-> e, password |-> "secret1", first_name |-> "Alice", last_name |-> "A"]
     : e \in {"alice@example.com", "bob@example.com", "john.doe@example.com"}}
  \cup
  {[email |-> "alice.example.com", password |-> "secret1", first_name |-> "Alice", last_name |-> "A"],
   [email |-> "john.doe@example.com", password |-> "short", first_name |-> "John", last_name |-> "Doe"],
   [email |-> "alice@example.com", password |-> "secret1", first_name |-> "", last_name |-> "A"],
   [email |-> "alice@example.com", password |-> "secret1", first_name |-> "Alice"],
   [email |-> "alice@example.com", password |-> "secret1", first_name |-> "Alice", last_name |-> "A",
    phone |-> "+1"]}

\* validation, up to await pool.query
Register(p, body) ==
  /\ req[p].pc = "idle"
  /\ LET r0  == [IdleReq EXCEPT !.op = "register", !.body = body]
         err == UserSchemaError(body)
     IN  IF err # "" THEN Respond(p, r0, 400, [error |-> err], FALSE)
         ELSE Await(p, [r0 EXCEPT !.pc = "register-select"])
  /\ UNCHANGED <<now, users, nextUserId, sessions>>

\* SELECT id FROM users WHERE email = $1, run by the store, and the
\* duplicate check, up to await bcrypt.genSalt
RegisterSelect(p, up) ==
  /\ req[p].pc = "register-select"
  /\ LET r == req[p]
     IN  IF ~up
           THEN Respond(p, [r EXCEPT !.caught = StoreDown], 500,
                        [error |-> "Internal server error"], FALSE)
         ELSE IF UsersByEmail(r.body.email) # {}
           THEN Respond(p, [r EXCEPT !.reads = 1], 409, [error |-> "User already exists"], FALSE)
         ELSE Await(p, [r EXCEPT !.reads = 1, !.pc = "genSalt"])
  /\ UNCHANGED <<now, users, nextUserId, sessions, limiter>>

\* bcrypt.genSalt(10) has produced a salt, up to await bcrypt.hash
RegisterGenSalt(p, salt) ==
  /\ req[p].pc = "genSalt"
  /\ Await(p, [req[p] EXCEPT !.salt = salt, !.pc = "hash"])
  /\ UNCHANGED <<now, users, nextUserId, sessions, limiter>>

\* bcrypt.hash(password, salt) has produced the hash, up to await pool.query
RegisterHash(p) ==
  /\ req[p].pc = "hash"
  /\ Await(p, [req[p] EXCEPT !.hashed = BcryptHash(req[p].body.password, req[p].salt),
                             !.pc = "insert"])
  /\ UNCHANGED <<now, users, nextUserId, sessions, limiter>>

\* the INSERT that answers without storing the row
InsertUserLost(table, row) == table

\* INSERT INTO users ... RETURNING id, email, first_name, last_name
InsertUser(table, row) == table \cup {row}

\* the INSERT, run by the store, and the answer
RegisterInsert(p, up) ==
  /\ req[p].pc = "insert"
  /\ nextUserId <= MaxUserId
  /\ LET r == req[p]
         row == [id |-> nextUserId, email |-> r.body.email, password_hash |-> r.hashed,
                 first_name |-> r.body.first_name, last_name |-> r.body.last_name]
     IN  IF ~up
           THEN /\ Respond(p, [r EXCEPT !.caught = StoreDown], 500,
                           [error |-> "Internal server error"], FALSE)
                /\ UNCHANGED <<users, nextUserId>>
         ELSE IF UsersByEmail(r.body.email) # {}
           THEN \* users_email_key is violated; the sequence value is used up
                /\ Respond(p, [r EXCEPT !.caught = "duplicate key value violates unique constraint"],
                           500, [error |-> "Internal server error"], FALSE)
                /\ nextUserId' = nextUserId + 1
                /\ UNCHANGED users
         ELSE /\ users' = InsertUser(users, row)
              /\ nextUserId' = nextUserId + 1
              /\ Respond(p, [r EXCEPT !.writes = 1], 201,
                         [message |-> "User registered successfully",
                          user |-> PublicUser(row)], FALSE)
  /\ UNCHANGED <<now, sessions, limiter>>

(* ------------------------- POST /api/auth/login ------------------------ *)
LoginBodies ==
  {[email |-> e, password |-> pw] :
      e \in {"alice@example.com", "bob@example.com", "john.doe@example.com"},
      pw \in {"secret1", "letmein"}}
  \cup {[email |-> "alice@example.com", password |-> ""], [password |-> "secret1"]}

\* !x for a body field: missing or the empty string
Falsy(body, key) == key \notin DOMAIN body \/ body[key] = ""

\* a login that tells an unknown email from a wrong password
LoginAnswerTelling(rows, body, t) ==
  IF rows = {}
    THEN [status |-> 404, body |-> [error |-> "User not found"]]
  ELSE LET user == CHOOSE u \in rows : TRUE
       IN  IF ~BcryptCompare(body.password, user.password_hash)
             THEN [status |-> 401, body |-> [error |-> "Invalid credentials"]]
           ELSE [status |-> 200,
                 body |-> [token |-> JwtSign([id |-> user.id, email |-> user.email],
                                             JwtSecret, LoginExpiresIn, t),
                           user |-> PublicUser(user)]]

\* the answer of login once the store has returned rows for the email
LoginAnswer(rows, body, t) ==
  IF rows = {}
    THEN [status |-> 401, body |-> [error |-> "Invalid credentials"]]
  ELSE LET user == CHOOSE u \in rows : TRUE
       IN  IF ~BcryptCompare(body.password, user.password_hash)
             THEN [status |-> 401, body |-> [error |-> "Invalid credentials"]]
           ELSE [status |-> 200,
                 body |-> [token |-> JwtSign([id |-> user.id, email |-> user.email],
                                             JwtSecret, LoginExpiresIn, t),
                           user |-> PublicUser(user)]]

\* the body check, up to await pool.query
Login(p, body) ==
  /\ req[p].pc = "idle"
  /\ LET r0 == [IdleReq EXCEPT !.op = "login", !.body = body]
     IN  IF Falsy(body, "email") \/ Falsy(body, "password")
           THEN Respond(p, r0, 400, [error |-> "Email and password required"], FALSE)
         ELSE Await(p, [r0 EXCEPT !.pc = "login-select"])
  /\ UNCHANGED <<now, users, nextUserId, sessions>>

\* SELECT * FROM users WHERE email = $1, run by the store, up to await
\* bcrypt.compare
LoginSelect(p, up) ==
  /\ req[p].pc = "login-select"
  /\ LET r    == req[p]
         rows == UsersByEmail(r.body.email)
     IN  IF ~up
           THEN Respond(p, [r EXCEPT !.caught = StoreDown], 500,
                        [error |-> "Internal server error"], FALSE)
         ELSE IF rows = {}
           THEN LET a == LoginAnswer(rows, r.body, now)
                IN  Respond(p, [r EXCEPT !.reads = 1], a.status, a.body, FALSE)
         ELSE Await(p, [r EXCEPT !.reads = 1, !.row = CHOOSE u \in rows : TRUE,
                                 !.pc = "compare"])
  /\ UNCHANGED <<now, users, nextUserId, sessions, limiter>>

\* bcrypt.compare has answered: the token is signed with the clock of this
\* moment; the client keeps the token of the answer or drops it
LoginCompare(p, keep) ==
  /\ req[p].pc = "compare"
  /\ LET r == req[p]
         a == LoginAnswer({r.row}, r.body, now)
     IN  Respond(p, r, a.status, a.body, keep)
  /\ UNCHANGED <<now, users, nextUserId, sessions, limiter>>

(* ------------------------- what a client can send ---------------------- *)
\* a token with the claims of an identity token, signed with another secret
Forged == JwtSign([id |-> 1, email |-> "john.doe@example.com"], "attacker_secret",
                  LoginExpiresIn, 0)

\* the Authorization headers client p can send: none, 'Bearer', 'Bearer '
\* with nothing after the space, "Bearer <t>" for each token it holds or can
\* make up, and 'Bearer  <t>' with two spaces before its identity token
AuthHeaders(p) ==
  {<<>>, <<"Bearer">>, <<"Bearer", EmptyToken>>}
  \cup {<<"Bearer", t>> : t \in ({wallet[p].token, wallet[p].chatToken,
                                  Garbage, Forged} \ {NoToken})}
  \cup {<<"Bearer", EmptyToken, t>> : t \in {wallet[p].token} \ {NoToken}}

\* those of them that carry no chat token
IdentityHeaders(p) ==
  AuthHeaders(p) \ {<<"Bearer", t>> : t \in {wallet[p].chatToken} \ {NoToken}}

\* "Bearer <t>" for each token the backend has answered client p with
HeldTokenHeaders(p) ==
  {<<"Bearer", t>> : t \in {wallet[p].token, wallet[p].chatToken,
                             wallet[p].sessionToken} \ {NoToken}}

\* each client has its own message text
Message(p) == IF p = 1 THEN "hello" ELSE "book tomorrow 10am"

\* bodies of POST /api/chatbot/message: session tokens are passed around
\* freely between clients
MessageBodies(p) ==
  {[message |-> m, sessionToken |-> t] :
      m \in {Message(p)},
      t \in ({wallet[q].sessionToken : q \in Clients} \cup {Garbage}) \ {NoToken}}
  \cup {[message |-> "", sessionToken |-> Garbage], [message |-> "hello"],
        [message |-> "hello", sessionToken |-> EmptyToken],
        [sessionToken |-> Garbage]}

(* ------------------------- GET /api/chatbot/token ---------------------- *)
SessionsByToken(token) == {s \in sessions : s.session_token = token}

\* an INSERT into a table without the unique constraint on session_token
UpsertSessionNoConflict(table, userId, sessionToken, expiresAt, t) ==
  table \cup {[user_id |-> userId, session_token |-> sessionToken,
               conversation_log |-> <<>>, updated_at |-> t,
               expires_at |-> expiresAt]}

\* an INSERT that on conflict stores the values it came with
UpsertSessionOverwrites(table, userId, sessionToken, expiresAt, t) ==
  {s \in table : s.session_token # sessionToken}
    \cup {[user_id |-> userId, session_token |-> sessionToken,
            conversation_log |-> <<>>, updated_at |-> t,
            expires_at |-> expiresAt]}

\* INSERT INTO chat_sessions ... ON CONFLICT (session_token) DO UPDATE SET
\* updated_at = NOW(), run at time t
UpsertSession(table, userId, sessionToken, expiresAt, t) ==
  IF \E s \in table : s.session_token = sessionToken
    THEN {IF s.session_token = sessionToken THEN [s EXCEPT !.updated_at = t] ELSE s
            : s \in table}
    ELSE table \cup {[user_id |-> userId, session_token |-> sessionToken,
                      conversation_log |-> <<>>, updated_at |-> t,
                      expires_at |-> expiresAt]}

\* the two tokens signed for userId at time t
ChatToken(userId, t) ==
  JwtSign(WithUserId(userId, [type |-> "chatbot"]), JwtSecret, ChatExpiresIn, t)
SessionToken(userId, t) ==
  JwtSign(WithUserId(userId, [sessionId |-> t]), JwtSecret, SessionExpiresIn, t)

\* the session tokens of the rows of userId and of the requests of userId
\* that wait for their INSERT
TokensOf(userId) ==
  {s.session_token : s \in {x \in sessions : x.user_id = userId}}
  \cup {req[q].resp.sessionToken :
          q \in {c \in Clients : req[c].pc = "upsert" /\ UserIdOf(req[c].user) = userId}}

\* the gate and the two tokens, up to await pool.query
IssueToken(p, authHeader, keep) ==
  /\ req[p].pc = "idle"
  /\ LET r0   == [IdleReq EXCEPT !.op = "issueToken", !.auth = authHeader,
                                 !.start = now]
         gate == authenticateToken(authHeader, now)
         userId == UserIdOf(gate.user)
         chatToken == ChatToken(userId, now)
         sessionToken == SessionToken(userId, now)
     IN  IF gate.status # 0
           THEN Respond(p, r0, gate.status, gate.body, keep)
         ELSE /\ Cardinality(TokensOf(userId) \cup {sessionToken}) <= MaxSessions
              /\ Await(p, [r0 EXCEPT !.user = gate.user, !.pc = "upsert",
                                     !.resp = [chatToken |-> chatToken,
                                               sessionToken |-> sessionToken]])
  /\ UNCHANGED <<now, users, nextUserId, sessions>>

\* a handler that fails after its INSERT
IssueTokenInsertFailsLate(p, up, keep) ==
  /\ req[p].pc = "upsert"
  /\ LET r == req[p]
     IN  /\ sessions' = UpsertSession(sessions, UserIdOf(r.user), r.resp.sessionToken,
                                      r.start + SessionRowTtl, now)
         /\ Respond(p, [r EXCEPT !.caught = StoreDown, !.sent = now],
                    500, [error |-> "Failed to generate chatbot token: " \o StoreDown], keep)
  /\ UNCHANGED <<now, users, nextUserId, limiter>>

\* the INSERT ... ON CONFLICT, run by the store at its NOW(), and the answer
IssueTokenInsert(p, up, keep) ==
  /\ req[p].pc = "upsert"
  /\ LET r == req[p]
         sessionToken == r.resp.sessionToken
     IN  IF ~up
           THEN /\ Respond(p, [r EXCEPT !.caught = StoreDown, !.sent = now], 500,
                           [error |-> "Failed to generate chatbot token: " \o StoreDown], keep)
                /\ UNCHANGED sessions
         ELSE /\ sessions' = UpsertSession(sessions, UserIdOf(r.user), sessionToken,
                                           r.start + SessionRowTtl, now)
              /\ Respond(p, [r EXCEPT !.writes = 1, !.sent = now,
                                      !.session = IF SessionsByToken(sessionToken) = {}
                                                    THEN NoSession
                                                    ELSE CHOOSE s \in SessionsByToken(sessionToken) : TRUE],
                         200, r.resp, keep)
  /\ UNCHANGED <<now, users, nextUserId, limiter>>

(* ------------------------ POST /api/chatbot/message -------------------- *)
\* the SELECT without its expires_at predicate
SelectAnySession(table, sessionToken, t) ==
  {s \in table : s.session_token = sessionToken}

\* SELECT * FROM chat_sessions WHERE session_token = $1 AND expires_at > NOW()
SelectValidSession(table, sessionToken, t) ==
  {s \in table : s.session_token = sessionToken /\ s.expires_at > t}

\* the entries of all stored transcripts, and the clients whose sendMessage
\* request is under way
RECURSIVE TotalEntries(_)
TotalEntries(table) ==
  IF table = {} THEN 0
  ELSE LET s == CHOOSE x \in table : TRUE
       IN  Len(s.conversation_log) + TotalEntries(table \ {s})
InFlight == {q \in Clients : req[q].pc \in {"select", "python", "update"}}

\* a body check that forgets the message
MissingInputTokenOnly(body) ==
  "sessionToken" \notin DOMAIN body \/ body.sessionToken = EmptyToken

\* !message || !sessionToken
MissingInput(body) ==
  \/ Falsy(body, "message")
  \/ "sessionToken" \notin DOMAIN body \/ body.sessionToken = EmptyToken

\* the gate and the body check, up to await pool.query
SendMessage(p, authHeader, body) ==
  /\ req[p].pc = "idle"
  /\ LET r0   == [IdleReq EXCEPT !.op = "sendMessage", !.auth = authHeader,
                                 !.body = body, !.start = now]
         gate == authenticateToken(authHeader, now)
         r1   == [r0 EXCEPT !.user = gate.user]
     IN  IF gate.status # 0
           THEN Respond(p, [r0 EXCEPT !.body = NoBody], gate.status, gate.body, FALSE)
         ELSE IF MissingInput(body)
           THEN Respond(p, r1, 400, [error |-> "Message and session token required"], FALSE)
         ELSE /\ TotalEntries(sessions) + 2 * Cardinality(InFlight) + 2 <= MaxLog
              /\ Await(p, [r1 EXCEPT !.pc = "select"])
  /\ UNCHANGED <<now, users, nextUserId, sessions>>

\* a handler that renews the sessions it finds
SendMessageSelectRenews(p, up) ==
  /\ req[p].pc = "select"
  /\ sessions' = {[s EXCEPT !.expires_at = now + SessionRowTtl] : s \in sessions}
  /\ Respond(p, [req[p] EXCEPT !.reads = 1, !.sent = now],
             400, [error |-> "Invalid or expired session"], FALSE)
  /\ UNCHANGED <<now, users, nextUserId, limiter>>

\* the SELECT, run by the store at its NOW(); on a valid session the
\* handler goes on to send the request to the Python service
SendMessageSelect(p, up) ==
  /\ req[p].pc = "select"
  /\ LET r == [req[p] EXCEPT !.sent = now]
     IN  IF ~up
           THEN Respond(p, [r EXCEPT !.caught = StoreDown], 500,
                        [error |-> "Failed to process chat message: " \o StoreDown], FALSE)
         ELSE LET rows == SelectValidSession(sessions, r.body.sessionToken, now)
              IN  IF rows = {}
                    THEN Respond(p, [r EXCEPT !.reads = 1], 400,
                                 [error |-> "Invalid or expired session"], FALSE)
                  ELSE Await(p, [r EXCEPT !.reads = 1, !.calls = 1, !.pc = "python",
                                          !.session = CHOOSE s \in rows : TRUE])
  /\ UNCHANGED <<now, users, nextUserId, sessions, limiter>>

\* body of the request sent to http://localhost:5000/api/chat
PythonRequest(r) == [message |-> r.body.message, user_id |-> UserIdOf(r.user),
                     session_token |-> r.body.sessionToken]

PythonTimeout == 30000

Replies == {[response |-> "How can I help?"],
            [response |-> "Booked.", action |-> "appointment_booked"]}

\* an updatedLog that starts afresh
UpdatedLogOnlyNew(conversationLog, message, data, t) ==
  <<[role |-> "user", content |-> message, timestamp |-> t],
    [role |-> "assistant", content |-> data.response, timestamp |-> t]>>

\* an updatedLog with the reply before the message
UpdatedLogReplyFirst(conversationLog, message, data, t) ==
  conversationLog \o
    <<[role |-> "assistant", content |-> data.response, timestamp |-> t],
      [role |-> "user", content |-> message, timestamp |-> t]>>

\* const updatedLog = [...conversationLog, {user entry}, {assistant entry}]
UpdatedLog(conversationLog, message, data, t) ==
  conversationLog \o
    <<[role |-> "user", content |-> message, timestamp |-> t],
      [role |-> "assistant", content |-> data.response, timestamp |-> t]>>

\* the Python service answers 2xx with payload data before the timeout
PythonReply(p, data) ==
  /\ req[p].pc = "python"
  /\ now - req[p].sent < PythonTimeout
  /\ LET r == req[p]
     IN  Await(p, [r EXCEPT !.py = data, !.pc = "update",
                            !.log = UpdatedLog(r.session.conversation_log,
                                               r.body.message, data, now)])
  /\ UNCHANGED <<now, users, nextUserId, sessions, limiter>>

PythonErrors == {"connect ECONNREFUSED 127.0.0.1:5000",
                 "Request failed with status code 500",
                 "timeout of 30000ms exceeded"}

\* a handler that sends the request a second time when the first one fails
PythonFailRetry(p, message) ==
  /\ req[p].pc = "python"
  /\ message \in PythonErrors
  /\ (message = "timeout of 30000ms exceeded") <=> (now - req[p].sent >= PythonTimeout)
  /\ IF req[p].calls < 2
       THEN Await(p, [req[p] EXCEPT !.calls = 2])
       ELSE Respond(p, [req[p] EXCEPT !.caught = message], 500,
                    [error |-> "Python service error: " \o message], FALSE)
  /\ UNCHANGED <<now, users, nextUserId, sessions, limiter>>

\* axios.post rejects: network error, non-2xx status or timeout
PythonFail(p, message) ==
  /\ req[p].pc = "python"
  /\ message \in PythonErrors
  /\ (message = "timeout of 30000ms exceeded") <=> (now - req[p].sent >= PythonTimeout)
  /\ Respond(p, [req[p] EXCEPT !.caught = message], 500,
             [error |-> "Python service error: " \o message], FALSE)
  /\ UNCHANGED <<now, users, nextUserId, sessions, limiter>>

\* an UPDATE that appends the last two entries of log to what is stored
UpdateLogAppend(table, sessionToken, log) ==
  {IF s.session_token = sessionToken
     THEN [s EXCEPT !.conversation_log = @ \o SubSeq(log, Len(log) - 1, Len(log))]
     ELSE s
     : s \in table}

\* UPDATE chat_sessions SET conversation_log = $1 WHERE session_token = $2
UpdateLog(table, sessionToken, log) ==
  {IF s.session_token = sessionToken THEN [s EXCEPT !.conversation_log = log] ELSE s
     : s \in table}

\* the stored transcript of a session token (<<>> when there is no row)
StoredLog(table, sessionToken) ==
  IF \E s \in table : s.session_token = sessionToken
    THEN (CHOOSE s \in table : s.session_token = sessionToken).conversation_log
    ELSE <<>>

\* a handler that answers with the response text alone
UpdateSessionTextOnly(p, up) ==
  /\ req[p].pc = "update"
  /\ LET r == req[p]
     IN  /\ sessions' = UpdateLog(sessions, r.body.sessionToken, r.log)
         /\ Respond(p, [r EXCEPT !.writes = 1,
                                 !.before = StoredLog(sessions, r.body.sessionToken)],
                    200, [response |-> r.py.response], FALSE)
  /\ UNCHANGED <<now, users, nextUserId, limiter>>

\* the UPDATE, then res.json(pythonResponse.data)
UpdateSession(p, up) ==
  /\ req[p].pc = "update"
  /\ LET r == req[p]
     IN  IF ~up
           THEN /\ Respond(p, [r EXCEPT !.caught = StoreDown], 500,
                           [error |-> "Failed to process chat message: " \o StoreDown], FALSE)
                /\ UNCHANGED sessions
         ELSE /\ sessions' = UpdateLog(sessions, r.body.sessionToken, r.log)
              /\ Respond(p, [r EXCEPT !.writes = 1,
                                      !.before = StoredLog(sessions, r.body.sessionToken)],
                         200, r.py, FALSE)
  /\ UNCHANGED <<now, users, nextUserId, limiter>>

(* ------------------------------ environment ---------------------------- *)
\* the clock moves to the next instant
Tick ==
  /\ \E t \in Instants : t > now
  /\ now' = CHOOSE t \in Instants : t > now /\ \A u \in Instants : u > now => t <= u
  /\ UNCHANGED <<users, nextUserId, sessions, req, wallet, answered, limiter>>

\* the credentials of a client
Email(p) == IF p = 1 THEN "alice@example.com" ELSE "bob@example.com"
OwnRegisterBody(p) == [email |-> Email(p), password |-> "secret1",
                       first_name |-> "Alice", last_name |-> "A"]
OwnLoginBody(p) == [email |-> Email(p), password |-> "secret1"]

\* One client that registers and logs in with its own credentials and then
\* sends every kind of request to the session service and the message proxy,
\* one request at a time, until the second day begins; it asks for tokens
\* with its identity token.
Next ==
  \/ /\ UNCHANGED page
     /\ MaySend(1)
     /\ Limited(1, "register", Register(1, OwnRegisterBody(1)))
  \/ /\ UNCHANGED page
     /\ RegisterSelect(1, TRUE)
  \/ /\ UNCHANGED page
     /\ \E salt \in Salts : RegisterGenSalt(1, salt)
  \/ /\ UNCHANGED page
     /\ RegisterHash(1)
  \/ /\ UNCHANGED page
     /\ RegisterInsert(1, TRUE)
  \/ /\ UNCHANGED page
     /\ MaySend(1)
     /\ Limited(1, "login", Login(1, OwnLoginBody(1)))
  \/ /\ UNCHANGED page
     /\ LoginSelect(1, TRUE)
  \/ /\ UNCHANGED page
     /\ LoginCompare(1, TRUE)
  \/ /\ UNCHANGED page
     /\ MaySend(1)
     /\ \E h \in IdentityHeaders(1) : Limited(1, "issueToken", IssueToken(1, h, TRUE))
  \/ /\ UNCHANGED page
     /\ IssueTokenInsert(1, TRUE, TRUE)
  \/ /\ UNCHANGED page
     /\ MaySend(1)
     /\ \E h \in AuthHeaders(1), body \in MessageBodies(1) :
           Limited(1, "sendMessage", SendMessage(1, h, body))
  \/ /\ UNCHANGED page
     /\ SendMessageSelect(1, TRUE)
  \/ /\ UNCHANGED page
     /\ \E data \in Replies : PythonReply(1, data)
  \/ /\ UNCHANGED page
     /\ \E message \in PythonErrors : PythonFail(1, message)
  \/ /\ UNCHANGED page
     /\ UpdateSession(1, TRUE)
  \/ /\ UNCHANGED page
     /\ (Tick /\ now' <= MsPerDay)

Spec == Init /\ [][Next]_vars

\* no request is under way
Quiet == \A q \in Clients : req[q].pc = "idle"
\* no request to the auth service is under way
AuthQuiet == \A q \in Clients : req[q].op \notin {"register", "login"}

\* Two clients, each with its own account: each signs up and logs in while
\* no other request is under way, and then their requests to the session
\* service and the message proxy interleave; each sends well-formed requests
\* with its identity token and any session token that was handed out, all
\* within the first day, while every token is valid.
NextRace ==
  \/ /\ UNCHANGED page
     /\ \E p \in Clients :
           /\ MaySend(p) /\ Quiet
           /\ Limited(p, "register", Register(p, OwnRegisterBody(p)))
  \/ /\ UNCHANGED page
     /\ \E p \in Clients : RegisterSelect(p, TRUE)
  \/ /\ UNCHANGED page
     /\ \E p \in Clients, salt \in Salts : RegisterGenSalt(p, salt)
  \/ /\ UNCHANGED page
     /\ \E p \in Clients : RegisterHash(p)
  \/ /\ UNCHANGED page
     /\ \E p \in Clients : RegisterInsert(p, TRUE)
  \/ /\ UNCHANGED page
     /\ \E p \in Clients :
           /\ MaySend(p) /\ Quiet
           /\ Limited(p, "login", Login(p, OwnLoginBody(p)))
  \/ /\ UNCHANGED page
     /\ \E p \in Clients : LoginSelect(p, TRUE)
  \/ /\ UNCHANGED page
     /\ \E p \in Clients : LoginCompare(p, TRUE)
  \/ /\ UNCHANGED page
     /\ \E p \in Clients :
           /\ MaySend(p) /\ AuthQuiet
           /\ wallet[p].token # NoToken
           /\ Limited(p, "issueToken", IssueToken(p, <<"Bearer", wallet[p].token>>, TRUE))
  \/ /\ UNCHANGED page
     /\ \E p \in Clients : IssueTokenInsert(p, TRUE, TRUE)
  \/ /\ UNCHANGED page
     /\ \E p \in Clients, q \in Clients :
           /\ MaySend(p) /\ AuthQuiet
           /\ wallet[p].token # NoToken
           /\ wallet[q].sessionToken # NoToken
           /\ Limited(p, "sendMessage",
                      SendMessage(p, <<"Bearer", wallet[p].token>>,
                                  [message |-> Message(p),
                                   sessionToken |-> wallet[q].sessionToken]))
  \/ /\ UNCHANGED page
     /\ \E p \in Clients : SendMessageSelect(p, TRUE)
  \/ /\ UNCHANGED page
     /\ \E p \in Clients : \E data \in {[response |-> "Booked.", action |-> "appointment_booked"]} :
           PythonReply(p, data)
  \/ /\ UNCHANGED page
     /\ \E p \in Clients : UpdateSession(p, TRUE)
  \/ /\ UNCHANGED page
     /\ (Tick /\ now' < MsPerDay)

SpecRace == Init /\ [][NextRace]_vars

\* The auth service alone, within the first two days: one client, every
\* kind of input and a store that can fail; no token is held on to.
NextAuth ==
  \/ /\ UNCHANGED page
     /\ MaySend(1)
     /\ \E body \in RegisterBodies : Limited(1, "register", Register(1, body))
  \/ /\ UNCHANGED page
     /\ \E up \in BOOLEAN : RegisterSelect(1, up)
  \/ /\ UNCHANGED page
     /\ \E salt \in Salts : RegisterGenSalt(1, salt)
  \/ /\ UNCHANGED page
     /\ RegisterHash(1)
  \/ /\ UNCHANGED page
     /\ \E up \in BOOLEAN : RegisterInsert(1, up)
  \/ /\ UNCHANGED page
     /\ MaySend(1)
     /\ \E body \in LoginBodies : Limited(1, "login", Login(1, body))
  \/ /\ UNCHANGED page
     /\ \E up \in BOOLEAN : LoginSelect(1, up)
  \/ /\ UNCHANGED page
     /\ LoginCompare(1, FALSE)
  \/ /\ UNCHANGED page
     /\ (Tick /\ now' < 2 * MsPerDay)

SpecAuth == Init /\ [][NextAuth]_vars

\* Registrations alone, within the first two days: two connections from one
\* address, each with the valid input of either client, whose steps
\* interleave.
NextSignup ==
  \/ /\ UNCHANGED page
     /\ MaySend(1)
     /\ \E p \in Clients, q \in Clients :
           LimitedFrom(1, p, "register", Register(p, OwnRegisterBody(q)))
  \/ /\ UNCHANGED page
     /\ \E p \in Clients : RegisterSelect(p, TRUE)
  \/ /\ UNCHANGED page
     /\ \E p \in Clients, salt \in Salts : RegisterGenSalt(p, salt)
  \/ /\ UNCHANGED page
     /\ \E p \in Clients : RegisterHash(p)
  \/ /\ UNCHANGED page
     /\ \E p \in Clients : RegisterInsert(p, TRUE)
  \/ /\ UNCHANGED page
     /\ (Tick /\ now' < 2 * MsPerDay)

SpecSignup == Init /\ [][NextSignup]_vars

\* One client that presents each token it holds, whatever it was issued
\* for, to the session service and the message proxy, within the first day.
NextTokens ==
  \/ /\ UNCHANGED page
     /\ MaySend(1)
     /\ Limited(1, "register", Register(1, OwnRegisterBody(1)))
  \/ /\ UNCHANGED page
     /\ RegisterSelect(1, TRUE)
  \/ /\ UNCHANGED page
     /\ \E salt \in Salts : RegisterGenSalt(1, salt)
  \/ /\ UNCHANGED page
     /\ RegisterHash(1)
  \/ /\ UNCHANGED page
     /\ RegisterInsert(1, TRUE)
  \/ /\ UNCHANGED page
     /\ MaySend(1)
     /\ Limited(1, "login", Login(1, OwnLoginBody(1)))
  \/ /\ UNCHANGED page
     /\ LoginSelect(1, TRUE)
  \/ /\ UNCHANGED page
     /\ LoginCompare(1, TRUE)
  \/ /\ UNCHANGED page
     /\ MaySend(1)
     /\ \E h \in HeldTokenHeaders(1) : Limited(1, "issueToken", IssueToken(1, h, TRUE))
  \/ /\ UNCHANGED page
     /\ IssueTokenInsert(1, TRUE, TRUE)
  \/ /\ UNCHANGED page
     /\ MaySend(1)
     /\ \E h \in HeldTokenHeaders(1) :
           /\ wallet[1].sessionToken # NoToken
           /\ Limited(1, "sendMessage",
                      SendMessage(1, h, [message |-> "hello",
                                         sessionToken |-> wallet[1].sessionToken]))
  \/ /\ UNCHANGED page
     /\ SendMessageSelect(1, TRUE)
  \/ /\ UNCHANGED page
     /\ \E data \in Replies : PythonReply(1, data)
  \/ /\ UNCHANGED page
     /\ UpdateSession(1, TRUE)
  \/ /\ UNCHANGED page
     /\ (Tick /\ now' < MsPerDay)

SpecTokens == Init /\ [][NextTokens]_vars

\* the time the collaborator takes to answer, when it is not immediate
PythonLag == 1000

\* the clock moves on by PythonLag while a request waits for the collaborator
Lag ==
  /\ now \in Instants
  /\ \E p \in Clients : req[p].pc = "python"
  /\ now' = now + PythonLag
  /\ UNCHANGED <<users, nextUserId, sessions, req, wallet, answered, limiter>>

\* One client that logs in, asks for tokens and sends messages with them,
\* within the first two days, to a collaborator that answers at once or
\* after a while.
NextExpiry ==
  \/ /\ UNCHANGED page
     /\ MaySend(1)
     /\ Limited(1, "register", Register(1, OwnRegisterBody(1)))
  \/ /\ UNCHANGED page
     /\ RegisterSelect(1, TRUE)
  \/ /\ UNCHANGED page
     /\ \E salt \in Salts : RegisterGenSalt(1, salt)
  \/ /\ UNCHANGED page
     /\ RegisterHash(1)
  \/ /\ UNCHANGED page
     /\ RegisterInsert(1, TRUE)
  \/ /\ UNCHANGED page
     /\ MaySend(1)
     /\ Limited(1, "login", Login(1, OwnLoginBody(1)))
  \/ /\ UNCHANGED page
     /\ LoginSelect(1, TRUE)
  \/ /\ UNCHANGED page
     /\ LoginCompare(1, TRUE)
  \/ /\ UNCHANGED page
     /\ MaySend(1)
     /\ wallet[1].token # NoToken
     /\ Limited(1, "issueToken", IssueToken(1, <<"Bearer", wallet[1].token>>, TRUE))
  \/ /\ UNCHANGED page
     /\ IssueTokenInsert(1, TRUE, TRUE)
  \/ /\ UNCHANGED page
     /\ MaySend(1)
     /\ wallet[1].token # NoToken
     /\ wallet[1].sessionToken # NoToken
     /\ Limited(1, "sendMessage",
                SendMessage(1, <<"Bearer", wallet[1].token>>,
                            [message |-> "hello", sessionToken |-> wallet[1].sessionToken]))
  \/ /\ UNCHANGED page
     /\ SendMessageSelect(1, TRUE)
  \/ /\ UNCHANGED page
     /\ PythonReply(1, [response |-> "How can I help?"])
  \/ /\ UNCHANGED page
     /\ \E message \in PythonErrors : PythonFail(1, message)
  \/ /\ UNCHANGED page
     /\ UpdateSession(1, TRUE)
  \/ /\ UNCHANGED page
     /\ Lag
  \/ /\ UNCHANGED page
     /\ (Tick /\ now' < 2 * MsPerDay)

SpecExpiry == Init /\ [][NextExpiry]_vars

\* One client and a store that can fail at any query, within the first day:
\* the client sends its own credentials or too few, its identity token, a
\* malformed one or none, and its session token or a malformed one.
FaultHeaders == {<<>>, <<"Bearer", Garbage>>}
                  \cup {<<"Bearer", t>> : t \in {wallet[1].token} \ {NoToken}}
FaultBodies  == {[message |-> "hello", sessionToken |-> t] :
                    t \in {wallet[1].sessionToken, Garbage} \ {NoToken}}
                  \cup {[message |-> "hello"]}
NextFault ==
  \/ /\ UNCHANGED page
     /\ MaySend(1)
     /\ Limited(1, "register", Register(1, OwnRegisterBody(1)))
  \/ /\ UNCHANGED page
     /\ \E up \in BOOLEAN : RegisterSelect(1, up)
  \/ /\ UNCHANGED page
     /\ \E salt \in Salts : RegisterGenSalt(1, salt)
  \/ /\ UNCHANGED page
     /\ RegisterHash(1)
  \/ /\ UNCHANGED page
     /\ \E up \in BOOLEAN : RegisterInsert(1, up)
  \/ /\ UNCHANGED page
     /\ MaySend(1)
     /\ \E body \in {OwnLoginBody(1), [password |-> "secret1"]} :
           Limited(1, "login", Login(1, body))
  \/ /\ UNCHANGED page
     /\ \E up \in BOOLEAN : LoginSelect(1, up)
  \/ /\ UNCHANGED page
     /\ LoginCompare(1, TRUE)
  \/ /\ UNCHANGED page
     /\ MaySend(1)
     /\ \E h \in FaultHeaders : Limited(1, "issueToken", IssueToken(1, h, TRUE))
  \/ /\ UNCHANGED page
     /\ \E up \in BOOLEAN : IssueTokenInsert(1, up, TRUE)
  \/ /\ UNCHANGED page
     /\ MaySend(1)
     /\ \E h \in FaultHeaders, body \in FaultBodies :
           Limited(1, "sendMessage", SendMessage(1, h, body))
  \/ /\ UNCHANGED page
     /\ \E up \in BOOLEAN : SendMessageSelect(1, up)
  \/ /\ UNCHANGED page
     /\ PythonReply(1, [response |-> "Booked.", action |-> "appointment_booked"])
  \/ /\ UNCHANGED page
     /\ \E message \in PythonErrors : PythonFail(1, message)
  \/ /\ UNCHANGED page
     /\ \E up \in BOOLEAN : UpdateSession(1, up)
  \/ /\ UNCHANGED page
     /\ (Tick /\ now' < MsPerDay)

SpecFault == Init /\ [][NextFault]_vars

\* One client whose every request is counted by the limiter: logins,
\* registrations, health checks and requests without a token, at any rate.
NextLimit ==
  \/ /\ UNCHANGED page
     /\ \E body \in {OwnLoginBody(1), [password |-> "secret1"]} :
           Limited(1, "login", Login(1, body))
  \/ /\ UNCHANGED page
     /\ LoginSelect(1, TRUE)
  \/ /\ UNCHANGED page
     /\ LoginCompare(1, FALSE)
  \/ /\ UNCHANGED page
     /\ Limited(1, "register", Register(1, OwnRegisterBody(1)))
  \/ /\ UNCHANGED page
     /\ RegisterSelect(1, TRUE)
  \/ /\ UNCHANGED page
     /\ \E salt \in Salts : RegisterGenSalt(1, salt)
  \/ /\ UNCHANGED page
     /\ RegisterHash(1)
  \/ /\ UNCHANGED page
     /\ RegisterInsert(1, TRUE)
  \/ /\ UNCHANGED page
     /\ Limited(1, "issueToken", IssueToken(1, <<>>, FALSE))
  \/ /\ UNCHANGED page
     /\ Limited(1, "sendMessage", SendMessage(1, <<>>, [message |-> "hello"]))
  \/ /\ UNCHANGED page
     /\ Limited(1, "health", Health(1))
  \/ /\ UNCHANGED page
     /\ Tick

SpecLimit == Init /\ [][NextLimit]_vars

(* ------------------------- pages/index.js: ChatbotPage ----------------- *)
\* String(v), as localStorage.setItem and a template literal apply it
StringOf(token) ==
  IF token = UndefinedToken THEN [form |-> "text", text |-> "undefined"]
  ELSE IF token = NoToken THEN [form |-> "text", text |-> "null"]
  ELSE token

\* !token
FalsyToken(token) == token \in {NoToken, UndefinedToken, EmptyToken}

\* response.data.token, response.data.sessionToken: undefined when missing
TokenField(data, key) == IF key \in DOMAIN data THEN data[key] ELSE UndefinedToken

\* error.message of the error axios rejects with when the answer has a
\* status that is not 2xx
AxiosMessage(status) == "Request failed with status code " \o ToString(status)

\* inputMessage.trim() of the texts typed here: a text of spaces only gives
\* the empty string, the others have no space at either end
BlankTexts == {"", " ", "   "}
Trim(text) == IF text \in BlankTexts THEN "" ELSE text

\* error.response?.data?.error || fallback
ErrorOr(data, fallback) ==
  IF "error" \in DOMAIN data /\ data.error # "" THEN data.error ELSE fallback

\* an axios call: the request it is about to send (queued), the connection
\* the request is on (sent), and the answer of the edge route (answered)
Call(kind, closure, op, auth, body) ==
  [kind |-> kind, closure |-> closure, op |-> op, auth |-> auth, body |-> body,
   state |-> "queued", slot |-> 0, status |-> 0, data |-> NoBody]

\* The backend step of the request on connection q is over and pg is the
\* page after the browser's part of the step: when the step answered the
\* request, the edge route's answer is on its way to the call that waits
\* for it.
Settle(q, pg) ==
  page' = IF req'[q].pc = "idle"
            THEN [pg EXCEPT !.calls =
                    {IF c.state = "sent" /\ c.slot = q
                       THEN [c EXCEPT !.state = "answered",
                                      !.status = answered'.edge.status,
                                      !.data = answered'.edge.body]
                       ELSE c : c \in @}]
            ELSE pg

\* the address the backend sees the requests of the page come from
PageAddress == 1

\* the page has sent fewer than MaxPageRequests requests in the window that
\* a request of it would be counted in
PageMaySend == Hit(limiter[PageAddress], now).hits <= MaxPageRequests

\* the request of a call arrives at the backend on the first connection
\* that is free
Arrive ==
  \E c \in page.calls :
     /\ c.state = "queued"
     /\ \E q \in Clients : req[q].pc = "idle"
     /\ LET q  == CHOOSE x \in Clients :
                    req[x].pc = "idle" /\ \A y \in Clients : req[y].pc = "idle" => x <= y
            pg == [page EXCEPT !.calls = (@ \ {c}) \cup {[c EXCEPT !.state = "sent", !.slot = q]}]
        IN  /\ LimitedFrom(PageAddress, q, c.op,
                   IF c.op = "login" THEN Login(q, c.body)
                   ELSE IF c.op = "register" THEN Register(q, c.body)
                   ELSE IF c.op = "issueToken" THEN IssueToken(q, c.auth, FALSE)
                   ELSE SendMessage(q, c.auth, c.body))
            /\ Settle(q, pg)

\* useEffect(..., []) on mount, after the first render with the initial
\* state: storedToken && storedUser
MountEffect(storage) ==
  IF ~FalsyToken(storage.authToken) /\ storage.user # NoBody
    THEN [InitialPage EXCEPT !.storage = storage, !.token = storage.authToken,
                             !.user = storage.user, !.isAuthenticated = TRUE,
                             !.timers = <<InitialPage.token>>]
    ELSE [InitialPage EXCEPT !.storage = storage]

\* the user reloads the page: the component state starts anew, the calls and
\* the pending callbacks of the old document are gone, localStorage stays
Reload ==
  /\ page' = MountEffect(page.storage)
  /\ UNCHANGED <<now, users, nextUserId, sessions, req, wallet, answered, limiter>>

\* the link below the form: setAuthMode(authMode === 'login' ? 'register'
\* : 'login'); setAuthError('')
ToggleAuthMode ==
  /\ ~page.isAuthenticated
  /\ page' = [page EXCEPT !.authMode = IF @ = "login" THEN "register" ELSE "login",
                          !.authError = "",
                          !.touched = TRUE]
  /\ UNCHANGED <<now, users, nextUserId, sessions, req, wallet, answered, limiter>>

\* handleAuth up to its await: the form is shown while !isAuthenticated and
\* its button is disabled while authLoading
HandleAuth(authData) ==
  /\ ~page.isAuthenticated
  /\ ~page.authLoading
  /\ page' = [page EXCEPT
                !.authLoading = TRUE, !.authError = "", !.touched = TRUE,
                !.calls = @ \cup
                  {IF page.authMode = "login"
                     THEN Call("auth", page.token, "login", <<>>,
                               [email |-> authData.email, password |-> authData.password])
                     ELSE Call("auth", page.token, "register", <<>>, authData)}]
  /\ UNCHANGED <<now, users, nextUserId, sessions, req, wallet, answered, limiter>>

\* handleAuth after its await; the callback of setTimeout calls the
\* getChatbotToken of the render in which handleAuth was created
HandleAuthSettled ==
  \E c \in page.calls :
     /\ c.kind = "auth" /\ c.state = "answered"
     /\ page' =
          IF c.status \in 200 .. 299
            THEN [page EXCEPT
                    !.storage = [authToken |-> StringOf(TokenField(c.data, "token")),
                                 user |-> c.data.user],
                    !.token = TokenField(c.data, "token"),
                    !.user = c.data.user,
                    !.isAuthenticated = TRUE,
                    !.authLoading = FALSE,
                    !.timers = Append(@, c.closure),
                    !.touched = FALSE,
                    !.calls = @ \ {c}]
            ELSE [page EXCEPT
                    !.authError = ErrorOr(c.data, "Authentication failed: " \o AxiosMessage(c.status)),
                    !.authLoading = FALSE,
                    !.calls = @ \ {c}]
     /\ UNCHANGED <<now, users, nextUserId, sessions, req, wallet, answered, limiter>>

\* handleLogout
HandleLogout(pg) ==
  [pg EXCEPT !.storage = NoStorage, !.token = NoToken, !.user = NoBody,
             !.isAuthenticated = FALSE, !.sessionToken = NoToken,
             !.messages = <<>>, !.authMode = "login", !.sessionError = ""]

\* the Logout button of the chat view
Logout ==
  /\ page.isAuthenticated
  /\ page' = HandleLogout([page EXCEPT !.touched = TRUE])
  /\ UNCHANGED <<now, users, nextUserId, sessions, req, wallet, answered, limiter>>

\* getChatbotToken of a render whose token state was token, up to its
\* await; pg is the page as the caller leaves it
GetChatbotToken(token, pg) ==
  /\ page' = IF FalsyToken(token) THEN pg
             ELSE [pg EXCEPT !.sessionLoading = TRUE, !.sessionError = "",
                             !.calls = @ \cup {Call("token", token, "issueToken",
                                                    <<"Bearer", StringOf(token)>>, NoBody)}]
  /\ UNCHANGED <<now, users, nextUserId, sessions, req, wallet, answered, limiter>>

\* the callback of setTimeout(..., 500) that was set first runs
Timeout ==
  /\ page.timers # <<>>
  /\ GetChatbotToken(Head(page.timers), [page EXCEPT !.timers = Tail(@)])

\* the button shown in the chat view while there is a session error or no
\* session token, and nothing is loading
ClickGetToken ==
  /\ page.isAuthenticated
  /\ ~page.sessionLoading
  /\ page.sessionError # "" \/ FalsyToken(page.sessionToken)
  /\ GetChatbotToken(page.token, [page EXCEPT !.touched = TRUE])

\* getChatbotToken after its await
GetChatbotTokenSettled ==
  \E c \in page.calls :
     /\ c.kind = "token" /\ c.state = "answered"
     /\ LET pg == [page EXCEPT !.sessionLoading = FALSE, !.calls = @ \ {c}]
        IN  page' =
              IF c.status \in 200 .. 299
                THEN [pg EXCEPT !.sessionToken = TokenField(c.data, "sessionToken")]
              ELSE IF c.status \in {401, 403} THEN HandleLogout(pg)
              ELSE [pg EXCEPT !.sessionError =
                                ErrorOr(c.data, "Failed to get session token: "
                                                  \o AxiosMessage(c.status))]
     /\ UNCHANGED <<now, users, nextUserId, sessions, req, wallet, answered, limiter>>

\* handleSendMessage up to its await; the input and the button are there
\* when there is a session token and are disabled while isLoading
HandleSendMessage(inputMessage) ==
  /\ page.isAuthenticated
  /\ ~page.sessionLoading /\ page.sessionError = ""
  /\ ~page.isLoading
  /\ Trim(inputMessage) # "" /\ ~FalsyToken(page.sessionToken)
  /\ page' = [page EXCEPT
                !.messages = Append(@, [role |-> "user", content |-> inputMessage]),
                !.isLoading = TRUE, !.touched = TRUE,
                !.calls = @ \cup
                  {Call("message", page.token, "sendMessage",
                        <<"Bearer", StringOf(page.token)>>,
                        [message |-> inputMessage, sessionToken |-> page.sessionToken])}]
  /\ UNCHANGED <<now, users, nextUserId, sessions, req, wallet, answered, limiter>>

\* handleSendMessage after its await: setMessages(prev => [...prev, message])
HandleSendMessageSettled ==
  \E c \in page.calls :
     /\ c.kind = "message" /\ c.state = "answered"
     /\ page' =
          [page EXCEPT
             !.messages =
                Append(@, [role |-> "assistant",
                           content |-> IF c.status \in 200 .. 299
                                         THEN c.data.response
                                         ELSE ErrorOr(c.data,
                                                      "Sorry, I encountered an error. Details: "
                                                        \o AxiosMessage(c.status))]),
             !.isLoading = FALSE,
             !.calls = @ \ {c}]
     /\ UNCHANGED <<now, users, nextUserId, sessions, req, wallet, answered, limiter>>

\* what the user types into the form
AuthInputs == {OwnRegisterBody(1), [OwnRegisterBody(1) EXCEPT !.password = "letmein"]}

\* the backend goes on with the request on one of the connections
PageBackend ==
  \E q \in Clients :
     \/ (RegisterSelect(q, TRUE) /\ Settle(q, page))
     \/ (\E salt \in Salts : RegisterGenSalt(q, salt) /\ Settle(q, page))
     \/ (RegisterHash(q) /\ Settle(q, page))
     \/ (RegisterInsert(q, TRUE) /\ Settle(q, page))
     \/ (LoginSelect(q, TRUE) /\ Settle(q, page))
     \/ (LoginCompare(q, FALSE) /\ Settle(q, page))
     \/ (IssueTokenInsert(q, TRUE, FALSE) /\ Settle(q, page))
     \/ (SendMessageSelect(q, TRUE) /\ Settle(q, page))
     \/ (PythonReply(q, [response |-> "How can I help?"]) /\ Settle(q, page))
     \/ (PythonFail(q, "connect ECONNREFUSED 127.0.0.1:5000") /\ Settle(q, page))
     \/ (UpdateSession(q, TRUE) /\ Settle(q, page))

\* The page of one user and the backend behind the edge routes: the user
\* fills in the form, logs out, asks for a session token, sends a message
\* and reloads the page, while requests arrive, callbacks run and answers
\* come back.
NextPage ==
  \/ \E authData \in AuthInputs : HandleAuth(authData)
  \/ (PageMaySend /\ Arrive)
  \/ HandleAuthSettled
  \/ ToggleAuthMode
  \/ Logout
  \/ Reload
  \/ Timeout
  \/ ClickGetToken
  \/ GetChatbotTokenSettled
  \/ (Len(page.messages) + 2 <= MaxLog
        /\ \E inputMessage \in {"hello", "   "} : HandleSendMessage(inputMessage))
  \/ HandleSendMessageSettled
  \/ PageBackend

SpecPage == Init /\ [][NextPage]_vars

\* an answer that has arrived is handled
PageSettled ==
  \/ HandleAuthSettled
  \/ GetChatbotTokenSettled
  \/ HandleSendMessageSettled

\* callbacks of setTimeout run, requests arrive, the backend goes on with a
\* request it has accepted, and answers are handled
SpecPageLive ==
  /\ SpecPage
  /\ WF_vars(Timeout)
  /\ WF_vars(PageMaySend /\ Arrive)
  /\ WF_vars(PageBackend)
  /\ WF_vars(PageSettled)

(* ======================================================================= *)
(*                               Properties                                *)
(* ======================================================================= *)
\* a step in which a request is answered
NewAnswer == answered' # answered
\* a step in which the INSERT of a register request runs
InsertStep == \E p \in Clients : req[p].pc = "insert" /\ req'[p].pc = "idle"
\* the users table has a row for the email
HasEmail(email) == \E u \in users : u.email = email
\* the email was registered with the password
RegisteredWith(email, password) ==
  \E u \in users : /\ u.email = email
                   /\ u.password_hash = BcryptHash(password, u.password_hash.salt)

\* C1: a register request with valid input whose email has no row when its
\* INSERT runs is answered 201 and adds exactly one users row, a row for that
\* email; a register request with valid input whose SELECT runs when the
\* email has a row, as that of every request that arrives later does, is
\* answered 409 'User already exists', goes no further and leaves the users
\* table as it is (the store answering its queries).
C1_RegisterThenConflict ==
  [][ /\ (InsertStep /\ answered'.caught # StoreDown
            /\ ~HasEmail(answered'.body.email))
         => /\ answered'.op = "register" /\ answered'.status = 201
            /\ \E row \in users' : /\ row \notin users
                                   /\ row.email = answered'.body.email
                                   /\ users' = users \cup {row}
                                   /\ answered'.resp.user.id = row.id
            /\ Cardinality(users') = Cardinality(users) + 1
      /\ \A p \in Clients :
           (req[p].pc = "register-select" /\ req'[p].pc # "idle" /\ req'[p] # req[p])
             => /\ req'[p].pc = "genSalt"
                /\ ~HasEmail(req[p].body.email)
      /\ (NewAnswer /\ ~InsertStep /\ answered'.op = "register"
            /\ UserSchemaError(answered'.body) = "" /\ answered'.caught = ""
            /\ HasEmail(answered'.body.email))
         => /\ answered'.status = 409
            /\ answered'.resp = [error |-> "User already exists"]
            /\ answered'.writes = 0
            /\ users' = users
    ]_vars

\* the same email registered twice: the second request is answered 409 by
\* the step that runs its SELECT
C1_Witness ==
  /\ answered.op = "register" /\ answered.status = 409
  /\ answered.reads = 1 /\ answered.writes = 0
  /\ answered.body.email = "alice@example.com"
  /\ \E u \in users : u.email = "alice@example.com" /\ u.id >= FirstFreeUserId

\* C2: a login with both fields present that the store serves is answered
\* 401 {error: 'Invalid credentials'} when the email has no row and when the
\* password is not the one of the row; the two answers are the same record.
C2_SameAnswer ==
  [][ (NewAnswer /\ answered'.op = "login" /\ answered'.caught = ""
         /\ ~Falsy(answered'.body, "email") /\ ~Falsy(answered'.body, "password")
         /\ (\/ ~HasEmail(answered'.body.email)
             \/ ~RegisteredWith(answered'.body.email, answered'.body.password)))
      => /\ answered'.status = 401
         /\ answered'.resp = [error |-> "Invalid credentials"]
    ]_vars

\* a registered email with a wrong password is answered 401
C2_Witness ==
  /\ answered.op = "login" /\ answered.status = 401
  /\ answered.body.email = "alice@example.com"
  /\ HasEmail("alice@example.com")
  /\ ~RegisteredWith("alice@example.com", answered.body.password)

\* the answer of the gate to the token of the login answered last
GateOnLoginToken == authenticateToken(<<"Bearer", answered.resp.token>>, now)

\* C10: a login with a registered email and its password that the store
\* serves is answered 200 with a token that verifies to exactly the id and
\* the email of that user, issued (iat) at the second of its answer; the gate
\* accepts the token, attaching these claims, while fewer than 24 hours of
\* whole seconds have passed since iat, and answers 403 from then on.
C10_LoginToken ==
  [][ /\ (NewAnswer /\ answered'.op = "login" /\ answered'.caught = ""
            /\ ~Falsy(answered'.body, "email") /\ ~Falsy(answered'.body, "password")
            /\ RegisteredWith(answered'.body.email, answered'.body.password))
         => /\ answered'.status = 200
            /\ LET v == JwtVerify(answered'.resp.token, JwtSecret, now)
               IN  /\ v.err = ""
                   /\ DOMAIN v.user = {"id", "email", "iat", "exp"}
                   /\ v.user.email = answered'.body.email
                   /\ \E u \in users : u.email = v.user.email /\ u.id = v.user.id
                   /\ v.user.iat = now \div 1000
      /\ (answered.op = "login" /\ answered.status = 200)
         => LET iat == answered.resp.token.claims.iat
            IN  IF now \div 1000 < iat + 24 * 60 * 60
                  THEN /\ GateOnLoginToken.status = 0
                       /\ GateOnLoginToken.user.id = answered.resp.user.id
                       /\ GateOnLoginToken.user.email = answered.resp.user.email
                  ELSE GateOnLoginToken.status = 403
    ]_vars

\* 24 hours after a login its token is refused
C10_Witness ==
  /\ answered.op = "login" /\ answered.status = 200
  /\ now \div 1000 >= answered.resp.token.claims.iat + 24 * 60 * 60
  /\ GateOnLoginToken.status = 403

(* ------------------ the gate, the session service, the proxy ----------- *)
Protected(a) == a.op \in {"issueToken", "sendMessage"}
\* the request did nothing: no store read, no store write, no call
DidNothing(a) == a.reads = 0 /\ a.writes = 0 /\ a.calls = 0
\* the rows of a table for a session token
RowsOf(table, token) == {s \in table : s.session_token = token}
\* the transcript stored for a session token that has a row
LogOf(table, token) == (CHOOSE s \in RowsOf(table, token) : TRUE).conversation_log
\* a token that is malformed, wrongly signed or expired at time t
BadToken(token, t) ==
  \/ token.form # "jwt"
  \/ token.key # JwtSecret
  \/ t \div 1000 >= token.claims.exp

\* C3: a request to issueToken or sendMessage without a bearer token (no
\* Authorization header, or nothing or the empty string where the header has
\* its token) is answered 401, one whose token is malformed, wrongly signed
\* or expired is answered 403; such a request attaches no claims, reads and
\* writes nothing in the store, calls no collaborator and leaves no handler
\* waiting.
C3_GateRejects ==
  [][ (NewAnswer /\ Protected(answered') /\ req' = req)
      => LET a == answered'
         IN  /\ (Len(a.auth) < 2 \/ a.auth[2].form = "empty")
                  => /\ a.status = 401
                     /\ a.resp = [error |-> "Access token required"]
                     /\ DidNothing(a) /\ a.user = NoUser
                     /\ sessions' = sessions /\ users' = users
             /\ (Len(a.auth) >= 2 /\ a.auth[2].form # "empty"
                   /\ BadToken(a.auth[2], now))
                  => /\ a.status = 403
                     /\ a.resp = [error |-> "Invalid or expired token"]
                     /\ DidNothing(a) /\ a.user = NoUser
                     /\ sessions' = sessions /\ users' = users
    ]_vars

\* a header with two spaces before a token that verifies has the empty
\* string where the gate reads the token: the request is answered 401
C3_Witness ==
  /\ Protected(answered) /\ answered.status = 401
  /\ Len(answered.auth) = 3
  /\ answered.auth[2].form = "empty"
  /\ ~BadToken(answered.auth[3], now)
  /\ DidNothing(answered)

\* the handler body of sendMessage read a message and a session token
ReadBody(a) ==
  /\ a.op = "sendMessage" /\ a.body # NoBody
  /\ ~Falsy(a.body, "message") /\ "sessionToken" \in DOMAIN a.body
  /\ a.body.sessionToken.form # "empty"

\* C4: when the session lookup of a sendMessage request that passed the
\* gate with a message and a session token is served by the store, the
\* request is answered 400 {error: 'Invalid or expired session'} both when
\* the token has no row and when its row has expires_at at or before the
\* time of the lookup; it calls no collaborator and writes no row, and only a
\* request whose token has a row that expires later goes on to the
\* collaborator.
C4_ExpiredAsUnknown ==
  [][ \A p \in Clients :
        LET rows == RowsOf(sessions, req[p].body.sessionToken)
        IN  /\ (req[p].pc = "select" /\ req'[p].pc = "idle" /\ answered'.caught = "")
                 => /\ ReadBody(answered')
                    /\ \A s \in rows : s.expires_at <= now
                    /\ answered'.status = 400
                    /\ answered'.resp = [error |-> "Invalid or expired session"]
                    /\ answered'.calls = 0 /\ answered'.writes = 0
                    /\ sessions' = sessions
            /\ (req[p].pc = "select" /\ req'[p].pc # "idle" /\ req'[p] # req[p])
                 => /\ req'[p].pc = "python"
                    /\ \E s \in rows : s.expires_at > now
            /\ (req[p].pc = "select" /\ (\A s \in rows : s.expires_at <= now))
                 => req'[p].pc \in {"select", "idle"}
    ]_vars

\* a session token whose row expired between the arrival of the request and
\* its session lookup is answered as an unknown one
C4_Witness ==
  /\ ReadBody(answered) /\ answered.status = 400
  /\ answered.resp = [error |-> "Invalid or expired session"]
  /\ answered.reads = 1 /\ answered.calls = 0
  /\ \E s \in RowsOf(sessions, answered.body.sessionToken) :
        /\ answered.start < s.expires_at
        /\ s.expires_at <= answered.sent

\* the UPDATE of the sendMessage request of client p is run by the store
UpdateStep(p) ==
  /\ req[p].pc = "update" /\ req'[p].pc = "idle"
  /\ answered'.op = "sendMessage" /\ answered'.status = 200

\* C5: when the UPDATE of a sendMessage request answered 200 finds the stored
\* transcript as the request read it, the transcript stored afterwards is
\* the one before followed by exactly two entries: 'user' with the request's
\* message, then 'assistant' with the collaborator's response, both stamped
\* no earlier than the request's arrival; no other row changes.
C5_AppendsExchange ==
  [][ \A p \in Clients :
        LET token == req[p].body.sessionToken
            old   == LogOf(sessions, token)
            new   == LogOf(sessions', token)
        IN  (UpdateStep(p) /\ RowsOf(sessions, token) # {}
               /\ old = req[p].session.conversation_log)
            => /\ Len(new) = Len(old) + 2
               /\ SubSeq(new, 1, Len(old)) = old
               /\ new[Len(old) + 1].role = "user"
               /\ new[Len(old) + 1].content = req[p].body.message
               /\ new[Len(old) + 2].role = "assistant"
               /\ new[Len(old) + 2].content = answered'.resp.response
               /\ new[Len(old) + 1].timestamp >= req[p].start
               /\ new[Len(old) + 2].timestamp >= req[p].start
               /\ sessions' \ RowsOf(sessions', token) = sessions \ RowsOf(sessions, token)
    ]_vars

\* a second exchange is stored after the first one
C5_Witness ==
  /\ answered.op = "sendMessage" /\ answered.status = 200
  /\ Len(answered.session.conversation_log) = 2
  /\ answered.before = answered.session.conversation_log
  /\ RowsOf(sessions, answered.body.sessionToken) # {}
  /\ Len(LogOf(sessions, answered.body.sessionToken)) = 4

\* C6: the UPDATE of a sendMessage request stores the transcript the request
\* read followed by its own two entries, whatever is stored at that time: when
\* another request has stored its exchange since the read, that exchange is
\* gone and the transcript is no longer than before the UPDATE.
C6_LastWriterWins ==
  [][ \A p \in Clients :
        LET token == req[p].body.sessionToken
            read  == req[p].session.conversation_log
            old   == LogOf(sessions, token)
            new   == LogOf(sessions', token)
        IN  (UpdateStep(p) /\ RowsOf(sessions, token) # {})
            => /\ Len(new) = Len(read) + 2
               /\ SubSeq(new, 1, Len(read)) = read
               /\ new[Len(read) + 1].content = req[p].body.message
               /\ (Len(old) = Len(read) + 2 => Len(new) = Len(old) /\ new # old)
    ]_vars

\* two requests read the same transcript, both are answered 200, and the
\* transcript holds the exchange of the second only: it grew by 2, not by 4
C6_Witness ==
  /\ answered.op = "sendMessage" /\ answered.status = 200
  /\ Len(answered.before) = Len(answered.session.conversation_log) + 2
  /\ answered.before[Len(answered.before) - 1].content # answered.body.message
  /\ RowsOf(sessions, answered.body.sessionToken) # {}
  /\ LogOf(sessions, answered.body.sessionToken) = answered.log
  /\ Len(answered.log) = Len(answered.session.conversation_log) + 2
  /\ \A i \in 1 .. Len(answered.log) :
        answered.log[i].role = "user"
          => answered.log[i].content # answered.before[Len(answered.before) - 1].content

\* C7: when the collaborator call of a sendMessage request fails, the
\* request is answered 500 with the error of the call, the collaborator was
\* called once in that request, and no row of the store changes.
C7_CollaboratorFails ==
  [][ \A p \in Clients :
        (req[p].pc = "python" /\ req'[p].pc # "update" /\ req'[p] # req[p])
        => /\ req'[p].pc = "idle"
           /\ answered'.op = "sendMessage" /\ answered'.status = 500
           /\ answered'.caught \in PythonErrors
           /\ answered'.calls = 1 /\ answered'.writes = 0
           /\ sessions' = sessions /\ users' = users
    ]_vars

\* a request whose collaborator call timed out is answered 500
C7_Witness ==
  /\ answered.op = "sendMessage" /\ answered.status = 500
  /\ answered.caught = "timeout of 30000ms exceeded"
  /\ answered.calls = 1 /\ answered.writes = 0

\* the user to whom a token was issued: the id claim of an identity token,
\* the userId claim of a chat or session token
TokenOwner(token) ==
  IF "id" \in DOMAIN token.claims THEN token.claims.id
  ELSE IF "userId" \in DOMAIN token.claims THEN token.claims.userId
  ELSE Undefined

\* C8: an issueToken call answered 200 makes one store write and no read and
\* returns a chatToken and a sessionToken; afterwards exactly one row has the
\* returned sessionToken, and its user_id is the id of the caller, the user
\* to whom the presented token was issued; a row that is new has an empty
\* transcript and expires 24 hours after the handler signed the tokens,
\* whenever its INSERT ran; no other row changes.
C8_IssueTokenRow ==
  [][ (NewAnswer /\ answered'.op = "issueToken" /\ answered'.status = 200)
      => LET a     == answered'
             token == a.resp.sessionToken
         IN  /\ a.writes = 1 /\ a.reads = 0 /\ a.calls = 0
             /\ DOMAIN a.resp = {"chatToken", "sessionToken"}
             /\ a.resp.chatToken.form = "jwt" /\ token.form = "jwt"
             /\ a.resp.chatToken # token
             /\ Cardinality(RowsOf(sessions', token)) = 1
             /\ \A s \in RowsOf(sessions', token) :
                  /\ s.user_id # Undefined
                  /\ s.user_id = TokenOwner(a.auth[2])
                  /\ RowsOf(sessions, token) = {}
                       => /\ s.conversation_log = <<>>
                          /\ s.expires_at = a.start + 24 * 60 * 60 * 1000
             /\ sessions' \ RowsOf(sessions', token) = sessions \ RowsOf(sessions, token)
    ]_vars

\* the user a token verifies to at time t: Undefined when it does not verify
\* or carries no userId
VerifiedUserId(token, t) ==
  LET v == JwtVerify(token, JwtSecret, t)
  IN  IF v.err = "" /\ "userId" \in DOMAIN v.user THEN v.user.userId ELSE Undefined

\* C9: the chat token and the session token that issueToken returns to a
\* caller U, the user to whom the presented token was issued, both verify,
\* with the signing secret, at the time they were signed to userId U, the
\* id of a users row, and at no time to the id of another user; this for
\* every token with which the gate lets the call through.
C9_TokensIdentifyUser ==
  [][ (NewAnswer /\ answered'.op = "issueToken" /\ answered'.status = 200)
      => LET a == answered'
             U == TokenOwner(a.auth[2])
         IN  /\ \E u \in users : u.id = U
             /\ VerifiedUserId(a.resp.chatToken, a.start) = U
             /\ VerifiedUserId(a.resp.sessionToken, a.start) = U
             /\ \A t \in Instants :
                  /\ VerifiedUserId(a.resp.chatToken, t) \in {U, Undefined}
                  /\ VerifiedUserId(a.resp.sessionToken, t) \in {U, Undefined}
    ]_vars

\* the request carried a token that verifies at time t
Authenticated(a, t) == Len(a.auth) >= 2 /\ ~BadToken(a.auth[2], t)
\* the body has no message, or the empty string as message
NoMessage(body) == "message" \notin DOMAIN body \/ body.message = ""
\* the body has no session token, or the empty string as session token
NoSessionToken(body) ==
  "sessionToken" \notin DOMAIN body \/ body.sessionToken.form = "empty"

\* C11: a sendMessage request with a valid bearer token whose message or
\* sessionToken is missing or empty is answered 400 {error: 'Message and
\* session token required'} in the step in which it arrives, having read
\* and written nothing in the store and called no collaborator.
C11_MissingInput ==
  [][ \A p \in Clients :
        ((req[p].pc = "idle" /\ req'[p] # req[p]) \/ (NewAnswer /\ req' = req))
          => LET a == IF NewAnswer THEN answered' ELSE req'[p]
             IN  (a.op = "sendMessage" /\ Authenticated(a, now)
                    /\ (a.body = NoBody \/ NoMessage(a.body) \/ NoSessionToken(a.body)))
                 => /\ NewAnswer /\ req' = req
                    /\ a.body # NoBody
                    /\ a.status = 400
                    /\ a.resp = [error |-> "Message and session token required"]
                    /\ DidNothing(a)
                    /\ sessions' = sessions /\ users' = users
    ]_vars

\* an authenticated request with a message and an empty session token was
\* refused
C11_Witness ==
  /\ answered.op = "sendMessage" /\ answered.status = 400
  /\ Authenticated(answered, answered.start)
  /\ answered.body # NoBody
  /\ ~NoMessage(answered.body)
  /\ "sessionToken" \in DOMAIN answered.body
  /\ answered.body.sessionToken = EmptyToken
  /\ answered.resp = [error |-> "Message and session token required"]
  /\ DidNothing(answered)

\* C12: a sendMessage request answered 200 is answered with the payload the
\* collaborator returned to that request: the same fields with the same
\* values, and the payload is one the collaborator sent.
C12_PayloadUnchanged ==
  [][ \A p \in Clients :
        /\ (req[p].pc = "python" /\ req'[p].pc = "update") => req'[p].py \in Replies
        /\ (req[p].op = "sendMessage" /\ req'[p].pc = "idle" /\ req[p].pc # "idle"
              /\ answered'.status = 200)
           => /\ req[p].pc = "update"
              /\ DOMAIN answered'.resp = DOMAIN req[p].py
              /\ \A k \in DOMAIN req[p].py : answered'.resp[k] = req[p].py[k]
    ]_vars

\* a payload with a response and an action has been passed back
C12_Witness ==
  /\ answered.op = "sendMessage" /\ answered.status = 200
  /\ answered.py = [response |-> "Booked.", action |-> "appointment_booked"]
  /\ answered.resp = [response |-> "Booked.", action |-> "appointment_booked"]

\* C13: every request to register, login, issueToken or sendMessage that
\* ends, ends with one answer, and every answer whose status is not 2xx is
\* a JSON body with an error field.
C13_JsonErrorAnswer ==
  [][ /\ \A p \in Clients :
           (req[p].pc # "idle" /\ req'[p].pc = "idle")
             => /\ answered'.pc = "done" /\ answered'.status # 0
                /\ answered'.op = req[p].op /\ answered'.body = req[p].body
      /\ (NewAnswer /\ answered'.status \notin 200 .. 299)
           => /\ answered'.op \in {"register", "login", "issueToken", "sendMessage"}
              /\ answered'.ctype = "application/json"
              /\ "error" \in DOMAIN answered'.resp
    ]_vars

\* a step in which a request is answered with an error status
ErrorAnswerStep ==
  /\ answered'.pc = "done"
  /\ answered'.status \in {400, 401, 403, 409, 500}
  /\ NewAnswer \/ \E p \in Clients : req[p].pc # "idle" /\ req'[p].pc = "idle"

\* C14: the step in which a register, login, issueToken or sendMessage
\* request is answered 400, 401, 403, 409 or 500 leaves the users table and
\* the chat_sessions table as they are, and no earlier step of that request
\* has written to them: a table changes only in the step that answers a
\* request 200 or 201, as the one write of that request.
C14_ErrorNoEffect ==
  [][ /\ ErrorAnswerStep
           => /\ users' = users /\ sessions' = sessions
              /\ answered'.writes = 0
      /\ (users' # users \/ sessions' # sessions)
           => /\ answered'.pc = "done" /\ answered'.status \in {200, 201}
              /\ answered'.writes = 1
              /\ \A p \in Clients : req'[p].pc # "idle" => req'[p] = req[p]
    ]_vars

\* the store failed at the UPDATE of a request whose collaborator call had
\* succeeded: the transcript is as the request read it
C14_Witness ==
  /\ answered.op = "sendMessage" /\ answered.status = 500
  /\ answered.caught = StoreDown
  /\ answered.calls = 1 /\ answered.py # NoBody /\ answered.writes = 0
  /\ RowsOf(sessions, answered.body.sessionToken) # {}
  /\ LogOf(sessions, answered.body.sessionToken) = answered.session.conversation_log

\* C15: the clock does not go back, no step removes a session row or
\* changes its expires_at, so a row that has expired stays expired; and a
\* sendMessage request reaches the collaborator only if the row of its
\* session token had not expired when its session lookup ran.  Hence once a
\* token is refused because its row expired, each later sendMessage that
\* gets as far as the session lookup with it is refused too.
C15_ExpiredForGood ==
  [][ /\ now' >= now
      /\ \A s \in sessions :
           /\ \E s2 \in sessions' : s2.session_token = s.session_token
           /\ \A s2 \in sessions' :
                s2.session_token = s.session_token => s2.expires_at = s.expires_at
           /\ s.expires_at <= now
                => \A s2 \in RowsOf(sessions', s.session_token) : s2.expires_at <= now'
      /\ \A p \in Clients :
           (req'[p].pc = "python" /\ req[p].pc # "python")
             => /\ req[p].pc = "select"
                /\ \A s \in RowsOf(sessions, req'[p].body.sessionToken) : s.expires_at > now
      /\ (answered'.op = "sendMessage" /\ answered'.calls = 1)
           => answered'.session.expires_at > answered'.sent
    ]_vars

\* a token is refused some time after its row expired, the row still there
\* with the expiry it was created with
C15_Witness ==
  /\ ReadBody(answered) /\ answered.status = 400
  /\ answered.resp = [error |-> "Invalid or expired session"]
  /\ \E s \in RowsOf(sessions, answered.body.sessionToken) :
        /\ answered.start > s.expires_at
        /\ answered.sent >= answered.start
        /\ now > s.expires_at
        /\ s.expires_at = (s.session_token.claims.sessionId) + 24 * 60 * 60 * 1000

\* C16: in every reachable state, whatever the interleaving of issueToken
\* and sendMessage requests, no two rows of chat_sessions have the same
\* session token: there is at most one transcript per session token.
C16_OneRowPerToken ==
  \A s1 \in sessions, s2 \in sessions :
     s1.session_token = s2.session_token => s1 = s2

\* issueToken has produced a session token a second time, after an exchange
\* was stored for it, and the token still has the one row with that exchange
C16_Witness ==
  /\ answered.op = "issueToken" /\ answered.status = 200
  /\ answered.session # NoSession
  /\ Len(answered.session.conversation_log) = 2
  /\ Cardinality(RowsOf(sessions, answered.resp.sessionToken)) = 1
  /\ LogOf(sessions, answered.resp.sessionToken) = answered.session.conversation_log

\* C17: in every reachable state each row of chat_sessions has a user_id
\* that is set and is the id of a row of the users table.
C17_RowHasUser ==
  \A s \in sessions :
     /\ s.user_id # Undefined
     /\ \E u \in users : u.id = s.user_id

\* C18: the edge route that forwards a request answers with the status and
\* the JSON body of the backend's answer, whether that answer is a success
\* or a failure.
C18_EdgeRelays ==
  answered.pc = "done"
    => /\ answered.edge.status = answered.status
       /\ answered.edge.body = answered.resp

\* C19: whenever the body of issueToken or sendMessage runs, the claims the
\* gate attached have an id, and it is the id of the user to whom the
\* presented token was issued.
C19_ContextUserId ==
  \A a \in {answered} \cup {req[p] : p \in Clients} :
     (Protected(a) /\ "exp" \in DOMAIN a.user)
       => /\ UserIdOf(a.user) # Undefined
          /\ UserIdOf(a.user) = TokenOwner(a.auth[2])

\* a register body with an email that is no email, a password of fewer
\* than 6 characters, or a first or last name that is missing or empty
InvalidInput(body) ==
  \/ "email" \notin DOMAIN body \/ body.email \notin Emails
  \/ "password" \notin DOMAIN body \/ Len(body.password) < 6
  \/ "first_name" \notin DOMAIN body \/ body.first_name = ""
  \/ "last_name" \notin DOMAIN body \/ body.last_name = ""

\* C20: a register request whose email is not a valid email, whose
\* password has fewer than 6 characters or whose first_name or last_name is
\* missing or empty is answered 400 in the step in which it arrives, with no
\* store read and no store write, whether or not the email is registered
\* and whether or not the store answers; it never gets to the INSERT.
C20_ValidationFirst ==
  [][ /\ (NewAnswer /\ req' = req /\ answered'.op = "register"
            /\ InvalidInput(answered'.body))
           => /\ answered'.status = 400
              /\ "error" \in DOMAIN answered'.resp
              /\ answered'.reads = 0 /\ answered'.writes = 0
              /\ answered'.caught = ""
              /\ users' = users /\ nextUserId' = nextUserId
      /\ \A p \in Clients :
           (req'[p].op = "register" /\ req'[p].pc # "idle")
             => ~InvalidInput(req'[p].body)
    ]_vars

\* a request with a registered email and a password of 5 characters was
\* answered 400
C20_Witness ==
  /\ answered.op = "register" /\ answered.status = 400
  /\ HasEmail(answered.body.email)
  /\ Len(answered.body.password) = 5
  /\ answered.resp = [error |-> "\"password\" length must be at least 6 characters long"]
  /\ answered.reads = 0

\* C21: when issueToken is answered 200 with a session token that already
\* had a row, the token still has exactly one row, with the transcript, the
\* user_id and the expires_at it had and updated_at set to the time at
\* which the store ran the INSERT of the call; no other row changes.
C21_ConflictKeepsRow ==
  [][ (answered'.op = "issueToken" /\ answered'.status = 200
         /\ (NewAnswer \/ sessions' # sessions)
         /\ RowsOf(sessions, answered'.resp.sessionToken) # {})
      => LET token == answered'.resp.sessionToken
         IN  /\ Cardinality(RowsOf(sessions', token)) = 1
             /\ \A old \in RowsOf(sessions, token), new \in RowsOf(sessions', token) :
                  /\ new.conversation_log = old.conversation_log
                  /\ new.user_id = old.user_id
                  /\ new.expires_at = old.expires_at
                  /\ new.updated_at = now
             /\ sessions' \ RowsOf(sessions', token) = sessions \ RowsOf(sessions, token)
    ]_vars

\* a session token was produced again while its row held an exchange and
\* had been created by the same user: the exchange is still stored
C21_Witness ==
  /\ answered.op = "issueToken" /\ answered.status = 200
  /\ answered.session # NoSession
  /\ answered.session.user_id = UserIdOf(answered.user)
  /\ \E s \in RowsOf(sessions, answered.resp.sessionToken) :
        /\ Len(s.conversation_log) >= 2
        /\ s.conversation_log[1].role = "user"
        /\ s.expires_at = answered.session.expires_at
        /\ s.updated_at = answered.sent

\* the keys of a response body, of its user object and of the claims of its
\* token
ResponseKeys(resp) ==
  DOMAIN resp
    \cup (IF "user" \in DOMAIN resp THEN DOMAIN resp.user ELSE {})
    \cup (IF "token" \in DOMAIN resp THEN DOMAIN resp.token.claims ELSE {})

\* C22: no answer of register or login has a password or password_hash
\* field, in the body, in its user object or in the claims of its token; a
\* user object has the fields id, email, first_name and last_name and no
\* other; and the password_hash of a row that register inserts is a salted
\* hash that matches the password, not the password itself.
C22_NoSecretInAnswer ==
  [][ /\ answered'.op \in {"register", "login"}
           => /\ ResponseKeys(answered'.resp) \cap {"password", "password_hash"} = {}
              /\ "user" \in DOMAIN answered'.resp
                   => DOMAIN answered'.resp.user = {"id", "email", "first_name", "last_name"}
              /\ answered'.status \in {200, 201} => "user" \in DOMAIN answered'.resp
      /\ \A u \in users' \ users :
           \E p \in Clients :
              /\ req[p].pc = "insert" /\ req[p].body.email = u.email
              /\ u.password_hash.wellformed /\ u.password_hash.salt \in Salts
              /\ u.password_hash.digest # <<req[p].body.password>>
              /\ BcryptCompare(req[p].body.password, u.password_hash)
    ]_vars

\* a user who registered has logged in and was answered with its user
\* object
C22_Witness ==
  /\ answered.op = "login" /\ answered.status = 200
  /\ DOMAIN answered.resp = {"token", "user"}
  /\ \E u \in users :
        /\ u.id = answered.resp.user.id /\ u.id >= FirstFreeUserId
        /\ u.password_hash.wellformed
        /\ answered.resp.user = [id |-> u.id, email |-> u.email,
                                 first_name |-> u.first_name, last_name |-> u.last_name]

\* C23: a sendMessage request is forwarded to the collaborator, and so
\* gets to extend a transcript, only when the row of its session token has
\* the user_id of the user the request is authenticated as.
C23_OwnerOnly ==
  \A a \in {answered} \cup {req[p] : p \in Clients} :
     (a.op = "sendMessage" /\ a.calls = 1)
       => a.session.user_id = UserIdOf(a.user)

\* C24: the UPDATE of a sendMessage request, run within the 30 seconds the
\* collaborator is given from the session lookup of the request, does not change
\* the transcript of a session at a time later than the expires_at of its
\* row.
C24_NoWriteAfterExpiry ==
  [][ \A p \in Clients :
        (UpdateStep(p) /\ now - req[p].sent < PythonTimeout)
          => \A s \in RowsOf(sessions, req[p].body.sessionToken) :
                LogOf(sessions', s.session_token) # s.conversation_log
                  => now <= s.expires_at
    ]_vars

\* C25: when the INSERT of a register request finds that the email has got
\* a row since the request's SELECT, the request is answered 409 'User
\* already exists', as a request that arrives after the other is; and the
\* users table never has two rows with one email.
C25_RaceGivesConflict ==
  [][ /\ \A p \in Clients :
           (req[p].pc = "insert" /\ req'[p].pc = "idle"
              /\ HasEmail(req[p].body.email) /\ answered'.caught # StoreDown)
             => /\ answered'.status = 409
                /\ answered'.resp = [error |-> "User already exists"]
      /\ \A u1 \in users', u2 \in users' : u1.email = u2.email => u1 = u2
    ]_vars

\* the roles of a transcript are user, assistant, user, assistant, ...
Alternates(log) ==
  /\ Len(log) % 2 = 0
  /\ \A i \in 1 .. Len(log) :
        log[i].role = IF i % 2 = 1 THEN "user" ELSE "assistant"

\* C26: after every step, also one of two sendMessage requests racing on a
\* session, each stored transcript has even length and the roles user,
\* assistant, user, assistant, ... from its first entry on; the transcript of
\* a row that the step created is empty.
C26_TranscriptAlternates ==
  [][ \A s \in sessions' :
        /\ Alternates(s.conversation_log)
        /\ RowsOf(sessions, s.session_token) = {} => s.conversation_log = <<>>
    ]_vars

\* a transcript holds the exchanges of two clients, one after the other
C26_Witness ==
  \E s \in sessions :
     /\ Len(s.conversation_log) = 4
     /\ s.conversation_log[1].content # s.conversation_log[3].content
     /\ s.conversation_log[2].role = "assistant"

\* C27: in the client page, whenever isAuthenticated is true the token state
\* holds an identity token that the backend has issued, after a login and
\* after a registration alike.
C27_TokenWhenAuthenticated ==
  page.isAuthenticated
    => /\ page.token.form = "jwt"
       /\ page.token.key = JwtSecret
       /\ "email" \in DOMAIN page.token.claims

\* C28: once the page is authenticated with an identity token, it comes to
\* hold a session token without any action of the user, unless the token
\* request fails or the limiter is about to refuse the requests of the
\* page: the callback scheduled at authentication sends the token request
\* with the new token.
C28_SessionTokenFollows ==
  (page.isAuthenticated /\ ~page.touched /\ page.token.form = "jwt")
    ~> \/ page.sessionToken # NoToken
       \/ page.touched
       \/ ~page.isAuthenticated
       \/ page.sessionError # ""
       \/ ~PageMaySend

\* C29: in the client page, whenever isAuthenticated is false the session
\* token is null and the list of messages is empty, also when an answer
\* arrives after a logout.
C29_LoggedOutIsClean ==
  ~page.isAuthenticated
    => /\ page.sessionToken = NoToken
       /\ page.messages = <<>>

====
